---------------------------- MODULE Spec2Model ----------------------------
(***************************************************************************)
(* Model of src/bot/bot_reversao.py (Reversao Pro): the Bollinger band     *)
(* calculation, the 1h context detector, the 5m entry detector, the        *)
(* confirmation of a signal, the Telegram alert with its dedup set and     *)
(* audit log, and the main loop of ReversaoBot with its rate limiter.      *)
(*                                                                         *)
(* Numbers.  Prices and volumes are integers (ticks); every comparison of  *)
(* the code between floating point expressions is evaluated exactly, by    *)
(* cross multiplication (x > y * 1.005 is 1000 x > 1005 y), and a quotient *)
(* is kept as the pair [num, den].  The one place where the rounding of    *)
(* the floating point evaluation decides the outcome is the division by a  *)
(* zero band width in BollingerBands.calcular: there the sign of the       *)
(* rounding residue close - sma is an input (residuo), see percent_b_de.   *)
(*                                                                         *)
(* Python values.  None is Nulo, a raised exception is Excecao(e), a dict  *)
(* is a record with the dict's keys and a field tipo.                      *)
(***************************************************************************)
EXTENDS Integers, Sequences, FiniteSets, TLC

VARIABLES
    fase,               \* detection core: which operation has been applied
    klines_1h,          \* result of obter_klines(symbol, '1h'), or Nulo
    klines_5m,          \* result of obter_klines(symbol, '5m'), or Nulo
    residuo,            \* sign of the rounding residue close - sma (-1, 0, 1)
    bb,                 \* result of BollingerBands.calcular
    contexto,           \* result of detectar_contexto_1h
    entrada,            \* result of detectar_entrada_5m
    sinal,              \* result of confirmar_sinal
    relogio,            \* datetime.now(): [ano, mes, dia, hora]
    alertas_enviados,   \* TelegramAlerta.alertas_enviados
    telegram,           \* messages delivered by bot.send_message, in order
    historico,          \* records appended to historico_sinais.log, in order
    chamada,            \* the last enviar_sinal call: argument, outcome, result
    n_chamadas,         \* number of enviar_sinal calls so far
    instante,           \* main loop: datetime.now() in seconds since the start
    ciclo_inicio,       \* main loop: ciclo_inicio of the pass
    ultima_verificacao, \* ReversaoBot.ultima_verificacao: pair -> seconds
    pc,                 \* main loop: position in executar
    indice,             \* main loop: position of the for loop in the pair list
    n_ciclos,           \* number of passes started so far
    ciclo,              \* the pass under way: start, pairs analysed, skipped, failed
    ciclo_anterior      \* the same for the pass before it

detVars    == <<fase, klines_1h, klines_5m, residuo, bb, contexto, entrada, sinal>>
alertaVars == <<relogio, alertas_enviados, telegram, historico, chamada, n_chamadas>>
botVars    == <<instante, ciclo_inicio, ultima_verificacao, pc, indice, n_ciclos,
                ciclo, ciclo_anterior>>
vars       == <<detVars, alertaVars, botVars>>

-----------------------------------------------------------------------------
(* Python values *)

Nulo == [tipo |-> "None"]

Excecao(e) == [tipo |-> "raise", erro |-> e]

Pendente == [tipo |-> "pendente"]

EhNulo(x) == x.tipo = "None"

EhExcecao(x) == x.tipo = "raise"

\* s[k] of a Python list for a negative index k (s[-1] is the last element)
Neg(s, k) == s[Len(s) + 1 + k]

\* s[-k:] of a Python list: the last k elements (all of them when k > len)
Ultimos(s, k) == IF Len(s) <= k THEN s ELSE SubSeq(s, Len(s) - k + 1, Len(s))

RECURSIVE Soma(_)
Soma(s) == IF s = <<>> THEN 0 ELSE Head(s) + Soma(Tail(s))

Quadrado(x) == x * x

Abs(x) == IF x < 0 THEN -x ELSE x

\* x = "num / den" compared with the decimal a / b, for den > 0 and b > 0
Maior(q, a, b) == q.den > 0 /\ q.num * b > a * q.den

Menor(q, a, b) == q.den > 0 /\ q.num * b < a * q.den


RECURSIVE MDC(_, _)
MDC(a, b) == IF b = 0 THEN a ELSE MDC(b, a % b)

\* the quotient num / den in lowest terms (den > 0)
Fracao(num, den) ==
    LET g == MDC(Abs(num), den)
    IN  [num |-> num \div g, den |-> den \div g]

-----------------------------------------------------------------------------
(* Configuration: the literals of the source *)

PERIODO_BB == 20            \* periodo=20 in confirmar_sinal

DESVIOS_BB == 2             \* desvios=2.0 in confirmar_sinal

MIN_CANDLES_1H == 25        \* len(klines_1h) < 25

MIN_CANDLES_5M == 15        \* len(klines_5m) < 15

JANELA_VOLUME == 20         \* klines_1h[-20:]

-----------------------------------------------------------------------------
(* BollingerBands.calcular *)

\* One entry of percent_b = (closes[periodo-1:] - inferior) / (superior - inferior)
\* for the window with sum s and sum of squares q ending at close c.  With
\* var = periodo*q - s*s and d = periodo*c - s: std = sqrt(var)/periodo,
\* c - sma = d/periodo, and percent_b = d / (2*desvios*sqrt(var)) + 1/2, kept
\* as the triple (d, var, k).  When var = 0 the band width superior - inferior
\* is 0.0 and numpy divides c - sma by zero without raising: nan for 0/0,
\* +inf or -inf for a non-zero numerator.  In exact arithmetic c - sma is 0
\* there; in floating point sma = sum of c*(1/periodo) is rounded and
\* c - sma is the rounding residue, whose sign is residuo (closes of 100.0:
\* sma = 100.0, residue 0; closes of 43250.12: std = 0.0 and
\* sma = 43250.12000000001, residue negative).
percent_b_de(c, s, q, periodo, desvios) ==
    LET var == periodo * q - s * s
        d   == periodo * c - s
    IN  IF var = 0
        THEN [classe |-> CASE residuo = 0 -> "nan"
                           [] residuo > 0 -> "+inf"
                           [] OTHER       -> "-inf",
              d |-> 0, var |-> 0, k |-> desvios]
        ELSE [classe |-> "fin", d |-> d, var |-> var, k |-> desvios]

\* percent_b > 0.95 as Python evaluates it: False for nan, True for +inf;
\* for a finite value d/(2k sqrt(var)) > 0.45, i.e. d > 0 and 100 d^2 > 81 k^2 var
PB_MaiorQue095(pb) ==
    \/ pb.classe = "+inf"
    \/ /\ pb.classe = "fin"
       /\ pb.d > 0
       /\ 100 * pb.d * pb.d > 81 * pb.k * pb.k * pb.var

\* percent_b < 0.05: d/(2k sqrt(var)) < -0.45
PB_MenorQue005(pb) ==
    \/ pb.classe = "-inf"
    \/ /\ pb.classe = "fin"
       /\ pb.d < 0
       /\ 100 * pb.d * pb.d > 81 * pb.k * pb.k * pb.var

BollingerBands_calcular(candles, periodo, desvios) ==
    IF Len(candles) < periodo
    THEN Nulo
    ELSE LET closes == [i \in 1..Len(candles) |-> candles[i].close]
             n      == Len(closes) - periodo + 1
             janela(i) == SubSeq(closes, i, i + periodo - 1)
             s(i)   == Soma(janela(i))
             q(i)   == Soma([j \in 1..periodo |-> Quadrado(janela(i)[j])])
         IN  [tipo      |-> "bb",
              media     |-> [i \in 1..n |-> [num |-> s(i), den |-> periodo]],
              superior  |-> [i \in 1..n |->
                               [soma |-> s(i), var |-> periodo * q(i) - s(i) * s(i),
                                k |-> desvios]],
              inferior  |-> [i \in 1..n |->
                               [soma |-> s(i), var |-> periodo * q(i) - s(i) * s(i),
                                k |-> -desvios]],
              percent_b |-> [i \in 1..n |->
                               percent_b_de(closes[i + periodo - 1], s(i), q(i),
                                            periodo, desvios)],
              periodo   |-> periodo,
              desvios   |-> desvios]

-----------------------------------------------------------------------------
(* DetectorReversao.detectar_contexto_1h *)

\* forca_volume = volume_atual / np.mean(volumes_20), a numpy division: with
\* a zero mean it is nan or inf (den = 0 here), never an exception
forca_volume_de(klines) ==
    LET volumes_20 == [i \in 1..Len(Ultimos(klines, JANELA_VOLUME)) |->
                          Ultimos(klines, JANELA_VOLUME)[i].volume]
    IN  [num |-> Neg(klines, -1).volume * Len(volumes_20), den |-> Soma(volumes_20)]

\* volume surge: forca_volume > 1.2
VolumeForte(fv) == Maior(fv, 12, 10) \/ (fv.den = 0 /\ fv.num > 0)

\* the resistance test without its volume condition
CondResistencia_sem_volume(maxima_atual, maxima_anterior, fechamento_atual, fv) ==
    /\ 1000 * maxima_atual > 1005 * maxima_anterior
    /\ 1000 * fechamento_atual < 995 * maxima_atual

CondResistencia(maxima_atual, maxima_anterior, fechamento_atual, fv) ==
    /\ 1000 * maxima_atual > 1005 * maxima_anterior
    /\ 1000 * fechamento_atual < 995 * maxima_atual
    /\ VolumeForte(fv)

CondSuporte(minima_atual, minima_anterior, fechamento_atual, fv) ==
    /\ 1000 * minima_atual < 995 * minima_anterior
    /\ 1000 * fechamento_atual > 1005 * minima_atual
    /\ VolumeForte(fv)

\* the dict returned for a detected zone
zona_de(tipo, preco_zona, klines) ==
    [tipo |-> tipo, preco_zona |-> preco_zona,
     preco_atual |-> Neg(Ultimos(klines, 5), -1).close,
     forca_volume |-> forca_volume_de(klines),
     timestamp |-> Neg(Ultimos(klines, 5), -1).open_time, timeframe |-> "1h"]

\* the classification with the support test before the resistance test
classificar_contexto_suporte_primeiro(klines) ==
    LET ultimos == Ultimos(klines, 5)
        fv      == forca_volume_de(klines)
    IN  IF CondSuporte(Neg(ultimos, -1).low, Neg(ultimos, -2).low,
                       Neg(ultimos, -1).close, fv)
        THEN zona_de("suporte", Neg(ultimos, -1).low, klines)
        ELSE IF CondResistencia(Neg(ultimos, -1).high, Neg(ultimos, -2).high,
                                Neg(ultimos, -1).close, fv)
        THEN zona_de("resistencia", Neg(ultimos, -1).high, klines)
        ELSE Nulo

\* lines 201-257: the classification of the last candle against the previous
classificar_contexto(klines) ==
    LET ultimos          == Ultimos(klines, 5)
        maxima_atual     == Neg(ultimos, -1).high
        minima_atual     == Neg(ultimos, -1).low
        fechamento_atual == Neg(ultimos, -1).close
        maxima_anterior  == Neg(ultimos, -2).high
        minima_anterior  == Neg(ultimos, -2).low
        fv               == forca_volume_de(klines)
    IN  IF CondResistencia(maxima_atual, maxima_anterior, fechamento_atual, fv)
        THEN zona_de("resistencia", maxima_atual, klines)
        ELSE IF CondSuporte(minima_atual, minima_anterior, fechamento_atual, fv)
        THEN zona_de("suporte", minima_atual, klines)
        ELSE Nulo

\* detectar_contexto_1h asking only for the 20 candles of the volume mean
detectar_contexto_1h_minimo_20(klines) ==
    IF Len(klines) < JANELA_VOLUME THEN Nulo ELSE classificar_contexto(klines)

detectar_contexto_1h(klines) ==
    IF Len(klines) < MIN_CANDLES_1H THEN Nulo ELSE classificar_contexto(klines)

-----------------------------------------------------------------------------
(* DetectorReversao.detectar_entrada_5m *)

\* np.mean of (high - low) / open_price over candles -4, -3, -2
amplitude_media_de(klines) ==
    LET a(i) == Neg(klines, i).high - Neg(klines, i).low
        o(i) == Neg(klines, i).open
    IN  Fracao(a(-4) * o(-3) * o(-2) + a(-3) * o(-4) * o(-2) + a(-2) * o(-4) * o(-3),
               3 * o(-4) * o(-3) * o(-2))

\* the entry detector reading the last elements, the candle in progress: the
\* band value at -1 and the price and timestamp of candle -1
detectar_entrada_5m_em_andamento(klines, bandas) ==
    IF Len(klines) < MIN_CANDLES_5M \/ EhNulo(bandas)
    THEN Nulo
    ELSE IF \E i \in {-4, -3, -2} : Neg(klines, i).open = 0
    THEN Excecao("ZeroDivisionError")
    ELSE LET percent_b       == Neg(bandas.percent_b, -1)
             amplitude_media == amplitude_media_de(klines)
             toque(tipo)     == [tipo |-> tipo, percent_b |-> percent_b,
                                 amplitude_media |-> amplitude_media,
                                 preco_atual |-> Neg(klines, -1).close,
                                 timestamp |-> Neg(klines, -1).open_time,
                                 timeframe |-> "5m"]
         IN  IF PB_MaiorQue095(percent_b) /\ Menor(amplitude_media, 3, 1000)
             THEN toque("lateralizacao_superior")
             ELSE IF PB_MenorQue005(percent_b) /\ Menor(amplitude_media, 3, 1000)
             THEN toque("lateralizacao_inferior")
             ELSE Nulo

detectar_entrada_5m(klines, bandas) ==
    IF Len(klines) < MIN_CANDLES_5M \/ EhNulo(bandas)
    THEN Nulo
    ELSE IF Len(bandas.percent_b) < 2
    THEN Excecao("IndexError")              \* bb['percent_b'][-2]
    ELSE IF \E i \in {-4, -3, -2} : Neg(klines, i).open = 0
    THEN Excecao("ZeroDivisionError")       \* (high - low) / open_price
    ELSE LET percent_b       == Neg(bandas.percent_b, -2)
             amplitude_media == amplitude_media_de(klines)
         IN  IF PB_MaiorQue095(percent_b) /\ Menor(amplitude_media, 3, 1000)
             THEN [tipo |-> "lateralizacao_superior", percent_b |-> percent_b,
                   amplitude_media |-> amplitude_media,
                   preco_atual |-> Neg(klines, -2).close,
                   timestamp |-> Neg(klines, -2).open_time, timeframe |-> "5m"]
             ELSE IF PB_MenorQue005(percent_b) /\ Menor(amplitude_media, 3, 1000)
             THEN [tipo |-> "lateralizacao_inferior", percent_b |-> percent_b,
                   amplitude_media |-> amplitude_media,
                   preco_atual |-> Neg(klines, -2).close,
                   timestamp |-> Neg(klines, -2).open_time, timeframe |-> "5m"]
             ELSE Nulo

-----------------------------------------------------------------------------
(* DetectorReversao.confirmar_sinal *)

\* a list returned by BinanceAPI.obter_klines; a failed fetch returns Nulo
Lista(itens) == [tipo |-> "list", itens |-> itens]

\* "not klines" of Python: None or the empty list
Falso(r) == EhNulo(r) \/ (r.tipo = "list" /\ r.itens = <<>>)

\* datetime.now().strftime('%d/%m %H:%M:%S'): day, month and time, no year
strftime(agora) == [dia |-> agora.dia, mes |-> agora.mes, hora |-> agora.hora]

\* the confidence with an inclusive boundary: forca_volume >= 1.5
confianca_de_inclusiva(fv) ==
    IF Maior(fv, 15, 10) \/ (fv.den > 0 /\ fv.num * 10 = 15 * fv.den)
    THEN "ALTA" ELSE "MEDIA"

\* 'ALTA' if contexto['forca_volume'] > 1.5 else 'MEDIA'
confianca_de(fv) == IF Maior(fv, 15, 10) THEN "ALTA" ELSE "MEDIA"

\* abs(risco) * 100 with risco = (zona - entrada) / zona
risco_percentual_de(preco_zona, preco_entrada) ==
    Fracao(Abs(preco_zona - preco_entrada) * 100, preco_zona)

sinal_de(acao, symbol, ctx, ent, agora) ==
    IF ctx.preco_zona = 0
    THEN Excecao("ZeroDivisionError")
    ELSE [tipo             |-> "sinal",
          acao             |-> acao,
          symbol           |-> symbol,
          preco_entrada    |-> ent.preco_atual,
          preco_zona       |-> ctx.preco_zona,
          risco_percentual |-> risco_percentual_de(ctx.preco_zona, ent.preco_atual),
          forca_volume     |-> ctx.forca_volume,
          timestamp        |-> strftime(agora),
          confianca        |-> confianca_de(ctx.forca_volume)]

\* the alignment with a buy branch that does not look at the entry
alinhamento_sem_entrada(symbol, ctx, ent, agora) ==
    IF ctx.tipo = "resistencia" /\ ent.tipo = "lateralizacao_superior"
    THEN sinal_de("VENDA", symbol, ctx, ent, agora)
    ELSE IF ctx.tipo = "suporte"
    THEN sinal_de("COMPRA", symbol, ctx, ent, agora)
    ELSE Nulo

\* Passo 6 of confirmar_sinal: the alignment of the two classifications
alinhamento(symbol, ctx, ent, agora) ==
    IF ctx.tipo = "resistencia" /\ ent.tipo = "lateralizacao_superior"
    THEN sinal_de("VENDA", symbol, ctx, ent, agora)
    ELSE IF ctx.tipo = "suporte" /\ ent.tipo = "lateralizacao_inferior"
    THEN sinal_de("COMPRA", symbol, ctx, ent, agora)
    ELSE Nulo

\* The locals of one run of confirmar_sinal and its result: r1h and r5m are
\* what the two obter_klines calls returned.  A local the run does not reach
\* stays Pendente.
confirmar_sinal(symbol, r1h, r5m, agora) ==
    LET nada == [bb |-> Pendente, contexto |-> Pendente, entrada |-> Pendente,
                 sinal |-> Nulo]
    IN  IF Falso(r1h) \/ Falso(r5m)
        THEN nada
        ELSE LET bb_5m == BollingerBands_calcular(r5m.itens, PERIODO_BB, DESVIOS_BB)
             IN  IF EhNulo(bb_5m)
                 THEN [nada EXCEPT !.bb = bb_5m]
                 ELSE LET ctx == detectar_contexto_1h(r1h.itens)
                      IN  IF EhNulo(ctx)
                          THEN [nada EXCEPT !.bb = bb_5m, !.contexto = ctx]
                          ELSE LET ent == detectar_entrada_5m(r5m.itens, bb_5m)
                               IN  [bb       |-> bb_5m,
                                    contexto |-> ctx,
                                    entrada  |-> ent,
                                    sinal    |-> IF EhExcecao(ent) THEN ent
                                                 ELSE IF EhNulo(ent) THEN Nulo
                                                 ELSE alinhamento(symbol, ctx, ent, agora)]

-----------------------------------------------------------------------------
(* The inputs of the detection core: the series obter_klines can return *)

PARES_MONITORADOS == {"BTCUSDT", "ETHUSDT", "SOLUSDT"}

\* how far the series lengths go beyond the minimum lengths of the detectors
Margem == 1

Candle(t, o, h, l, c, v) ==
    [open_time |-> t, open |-> o, high |-> h, low |-> l, close |-> c, volume |-> v]

\* A 1h series of n candles: flat candles at 400 with volume vb, then the
\* previous candle pen = <<high, low>> and the last candle ult
Serie1h(n, vb, pen, ult) ==
    [i \in 1..n |->
        IF i = n THEN Candle(i, 400, ult.high, ult.low, ult.close, ult.volume)
        ELSE IF i = n - 1 THEN Candle(i, 400, pen[1], pen[2], 400, vb)
        ELSE Candle(i, 400, 400, 400, 400, vb)]

\* the last candles of the 1h series: on, just below and just above the 0.5%
\* thresholds around 400, and far from it; low <= close <= high
UltimosCandles1h ==
    {u \in [high : {400, 402, 403, 500}, low : {400, 398, 397, 300},
            close : {300, 399, 400, 401, 500}, volume : {0, 44, 45, 57, 80}] :
        u.low <= u.close /\ u.close <= u.high}

Penultimos1h == {<<400, 400>>, <<410, 390>>}

VolumesBase1h == {0, 37, 47}

Comprimentos1h == {0} \cup ((MIN_CANDLES_1H - 1)..(MIN_CANDLES_1H + Margem))

\* the 1h series: a market without volume has no volume in any candle
Buscas1h ==
    {p \in [n : Comprimentos1h, vb : VolumesBase1h, pen : Penultimos1h,
            ult : UltimosCandles1h] :
        /\ (p.vb = 0) = (p.ult.volume = 0)
        /\ p.n = 0 => (p.vb = 37 /\ p.pen = <<400, 400>> /\ p.ult.high = 400
                        /\ p.ult.low = 400 /\ p.ult.volume = 57)
        /\ p.n # MIN_CANDLES_1H => p.pen = <<400, 400>>}

\* a few 1h series for the runs where the 5m series varies: no zone, a
\* resistance with surge 57/38 = 1.5 and with surge above 1.5, a support
\* with surge below and above 1.5
Buscas1hPoucas ==
    {[n |-> MIN_CANDLES_1H, vb |-> 37, pen |-> <<400, 400>>, ult |-> u] :
        u \in {[high |-> 400, low |-> 400, close |-> 400, volume |-> 57],
               [high |-> 500, low |-> 400, close |-> 400, volume |-> 57],
               [high |-> 500, low |-> 400, close |-> 400, volume |-> 80],
               [high |-> 400, low |-> 300, close |-> 400, volume |-> 45],
               [high |-> 400, low |-> 300, close |-> 400, volume |-> 80]}}

\* A 5m series of n candles around the price b: closes alternate between b
\* and b + ruido, the latest closed candle (n - 1) closes at b + d2 and the
\* candle in progress (n) at b + d1; every candle opens at its close, has
\* low = close and high = close + a; with zero the candle n - 2 opens at 0
Serie5m(n, b, ruido, d2, d1, a, zero) ==
    [i \in 1..n |->
        LET c == IF i = n THEN b + d1
                 ELSE IF i = n - 1 THEN b + d2
                 ELSE b + (IF i % 2 = 1 THEN ruido ELSE 0)
        IN  Candle(i, IF zero /\ i = n - 2 THEN 0 ELSE c, c + a, c, c, 1)]

Comprimentos5m ==
    {0} \cup ((MIN_CANDLES_5M - 1)..MIN_CANDLES_5M)
        \cup ((PERIODO_BB - 1)..(PERIODO_BB + 1 + Margem))

Residuos == {-1, 0, 1}

\* the 5m series, each with the rounding residue of its band calculation
\* (read only where a window has no variance: ruido = 0 and d2 = 0)
Buscas5m ==
    {p \in [n : Comprimentos5m, b : {489}, ruido : {0, 1}, d2 : {-10, -1, 0, 1, 10},
            d1 : {0, 30}, a : {1, 2}, zero : BOOLEAN, residuo : Residuos] :
        /\ p.residuo # 0 => (p.ruido = 0 /\ p.d2 = 0)
        /\ p.zero => (p.ruido = 0 /\ p.d1 = 0)
        /\ p.n = 0 => (p.ruido = 0 /\ p.d2 = 0 /\ p.d1 = 0 /\ p.a = 1 /\ ~p.zero
                        /\ p.residuo = 0)}

\* a few 5m series for the runs where the 1h series varies: a touch of the
\* upper band and of the lower band
Buscas5mPoucas ==
    {[n |-> PERIODO_BB + 1, b |-> 489, ruido |-> 0, d2 |-> d2, d1 |-> 0, a |-> 1,
      zero |-> FALSE, residuo |-> 0] : d2 \in {-1, 1}}

Klines1h(p) == Lista(Serie1h(p.n, p.vb, p.pen, p.ult))

Klines5m(p) == Lista(Serie5m(p.n, p.b, p.ruido, p.d2, p.d1, p.a, p.zero))

-----------------------------------------------------------------------------
(* The state after construction *)

\* the date the process starts at
RelogioInicial == [ano |-> 0, mes |-> 1, dia |-> 1, hora |-> 0]

InitDet ==
    /\ relogio = RelogioInicial
    /\ alertas_enviados = {}
    /\ telegram = <<>>
    /\ historico = <<>>
    /\ chamada = Pendente
    /\ n_chamadas = 0
    /\ fase = "entrada"
    \* what the two obter_klines calls of one analysis return: a list of
    \* candles, or None when the request failed
    /\ \/ \E p \in Buscas1h, q \in Buscas5mPoucas :
             klines_1h = Klines1h(p) /\ klines_5m = Klines5m(q) /\ residuo = q.residuo
       \/ \E p \in Buscas1hPoucas, q \in Buscas5m :
             klines_1h = Klines1h(p) /\ klines_5m = Klines5m(q) /\ residuo = q.residuo
       \/ \E q \in Buscas5mPoucas :
             klines_1h = Nulo /\ klines_5m = Klines5m(q) /\ residuo = q.residuo
       \/ \E p \in Buscas1hPoucas :
             klines_1h = Klines1h(p) /\ klines_5m = Nulo /\ residuo = 0
    /\ bb = Pendente
    /\ contexto = Pendente
    /\ entrada = Pendente
    /\ sinal = Pendente
    /\ instante = 0
    /\ ciclo_inicio = 0
    /\ ultima_verificacao = [p \in {} |-> 0]
    /\ pc = "parado"
    /\ indice = 0
    /\ n_ciclos = 0
    /\ ciclo = [inicio |-> 0, analisados |-> {}, pulados |-> {}, falhas |-> {}]
    /\ ciclo_anterior = [inicio |-> 0, analisados |-> {}, pulados |-> {}, falhas |-> {}]

-----------------------------------------------------------------------------
(* The detection core: each operation applied to the fetched series *)

Calcular ==
    /\ fase = "entrada"
    /\ klines_5m.tipo = "list"
    /\ bb' = BollingerBands_calcular(klines_5m.itens, PERIODO_BB, DESVIOS_BB)
    /\ fase' = "calcular"
    /\ UNCHANGED <<klines_1h, klines_5m, residuo, contexto, entrada, sinal, alertaVars, botVars>>

DetectarContexto ==
    /\ fase = "entrada"
    /\ klines_1h.tipo = "list"
    /\ contexto' = detectar_contexto_1h(klines_1h.itens)
    /\ fase' = "contexto"
    /\ UNCHANGED <<klines_1h, klines_5m, residuo, bb, entrada, sinal, alertaVars, botVars>>

\* detectar_entrada_5m(klines_5m, bb) with bb the bands of the series, or None
DetectarEntrada ==
    /\ fase = "entrada"
    /\ klines_5m.tipo = "list"
    /\ \E com_bb \in BOOLEAN :
          /\ bb' = IF com_bb
                   THEN BollingerBands_calcular(klines_5m.itens, PERIODO_BB, DESVIOS_BB)
                   ELSE Nulo
          /\ entrada' = detectar_entrada_5m(klines_5m.itens, bb')
    /\ fase' = "entrada5m"
    /\ UNCHANGED <<klines_1h, klines_5m, residuo, contexto, sinal, alertaVars, botVars>>

ConfirmarSinal ==
    /\ fase = "entrada"
    /\ \E symbol \in PARES_MONITORADOS :
          LET r == confirmar_sinal(symbol, klines_1h, klines_5m, relogio)
          IN  /\ bb' = r.bb
              /\ contexto' = r.contexto
              /\ entrada' = r.entrada
              /\ sinal' = r.sinal
    /\ fase' = "confirmar"
    /\ UNCHANGED <<klines_1h, klines_5m, residuo, alertaVars, botVars>>

NextDet == Calcular \/ DetectarContexto \/ DetectarEntrada \/ ConfirmarSinal

SpecDet == InitDet /\ [][NextDet]_vars

-----------------------------------------------------------------------------
(* Properties of the detection core, checked under SpecDet *)

\* the fetched series as lists (a failed fetch as the empty list)
Itens1h == IF klines_1h.tipo = "list" THEN klines_1h.itens ELSE <<>>

Itens5m == IF klines_5m.tipo = "list" THEN klines_5m.itens ELSE <<>>

\* the two classifications of the fetched series, None for an absent one
ContextoDasKlines ==
    IF Falso(klines_1h) THEN Nulo ELSE detectar_contexto_1h(Itens1h)

EntradaDasKlines ==
    IF Falso(klines_5m) THEN Nulo
    ELSE detectar_entrada_5m(Itens5m,
                             BollingerBands_calcular(Itens5m, PERIODO_BB, DESVIOS_BB))

ParDeVenda(ctx, ent) ==
    ctx.tipo = "resistencia" /\ ent.tipo = "lateralizacao_superior"

ParDeCompra(ctx, ent) ==
    ctx.tipo = "suporte" /\ ent.tipo = "lateralizacao_inferior"

\* C1: confirmar_sinal returns a signal only from a direction-compatible
\* pair: (resistencia, lateralizacao_superior) gives VENDA, (suporte,
\* lateralizacao_inferior) gives COMPRA, and every other pair of
\* classifications, one of them absent included, gives None.  (A run in which
\* detectar_entrada_5m raises has no entry classification and returns
\* nothing: it is no signal either.)
C1_SinalSoDeParCompativel ==
    fase = "confirmar" =>
        LET ctx == ContextoDasKlines
            ent == EntradaDasKlines
        IN  /\ ParDeVenda(ctx, ent) => (sinal.tipo = "sinal" /\ sinal.acao = "VENDA")
            /\ ParDeCompra(ctx, ent) => (sinal.tipo = "sinal" /\ sinal.acao = "COMPRA")
            /\ sinal.tipo = "sinal" => (ParDeVenda(ctx, ent) \/ ParDeCompra(ctx, ent))
            /\ (~ParDeVenda(ctx, ent) /\ ~ParDeCompra(ctx, ent) /\ ~EhExcecao(ent))
                  => sinal = Nulo

\* a misaligned pair, resistance with a touch of the lower band, gave None
C1_Witness ==
    /\ fase = "confirmar"
    /\ contexto.tipo = "resistencia"
    /\ entrada.tipo = "lateralizacao_inferior"
    /\ sinal = Nulo

\* the series with its last element replaced by the candle u
ComUltimo(klines, u) ==
    [klines EXCEPT ![Len(klines)] =
        Candle(klines[Len(klines)].open_time, klines[Len(klines)].open,
               u.high, u.low, u.close, u.volume)]

\* C5: the context classification is computed from closed candles only:
\* changing only the last element of the fetched 1h series, the candle that
\* may be in progress, does not change the result of detectar_contexto_1h.
C5_UltimoCandleNaoDecide ==
    (fase = "contexto" /\ Len(Itens1h) > 0) =>
        \A u \in UltimosCandles1h :
            detectar_contexto_1h(ComUltimo(Itens1h, u)) = contexto

\* C6 as claimed: the confidence is ALTA whenever forca_volume >= 1.5
C6_ConfiancaInclusiva ==
    (fase = "confirmar" /\ sinal.tipo = "sinal") =>
        LET fv == forca_volume_de(Itens1h)
        IN  (sinal.confianca = "ALTA") = (fv.den > 0 /\ fv.num * 10 >= 15 * fv.den)

\* C6: the confidence of a confirmed signal is ALTA when forca_volume > 1.5
\* and MEDIA otherwise, the boundary excluded; the risk is
\* |zona - entrada| / zona * 100, so that a resistance at 500 with surge
\* exactly 1.5 and an entry at 490 give VENDA, risk 2.0 and MEDIA.
C6_ConfiancaEstrita ==
    (fase = "confirmar" /\ sinal.tipo = "sinal") =>
        LET fv == forca_volume_de(Itens1h)
        IN  /\ sinal.forca_volume = fv
            /\ (sinal.confianca = "ALTA") = (fv.den > 0 /\ fv.num * 10 > 15 * fv.den)
            /\ sinal.confianca \in {"ALTA", "MEDIA"}
            /\ sinal.risco_percentual.num * sinal.preco_zona
                  = Abs(sinal.preco_zona - sinal.preco_entrada) * 100
                      * sinal.risco_percentual.den
            /\ (sinal.preco_zona = 500 /\ sinal.preco_entrada = 490
                  /\ fv.num * 10 = 15 * fv.den /\ contexto.tipo = "resistencia")
                  => /\ sinal.acao = "VENDA"
                     /\ sinal.risco_percentual = [num |-> 2, den |-> 1]
                     /\ sinal.confianca = "MEDIA"

\* a sale at 490 under a resistance at 500 with surge exactly 1.5
C6_Witness ==
    /\ fase = "confirmar"
    /\ sinal.tipo = "sinal"
    /\ sinal.acao = "VENDA"
    /\ sinal.preco_zona = 500
    /\ sinal.preco_entrada = 490
    /\ sinal.forca_volume.num * 10 = 15 * sinal.forca_volume.den
    /\ sinal.confianca = "MEDIA"

\* C7: a series shorter than the minimum of an operation gives None, not an
\* exception: calcular below periodo candles, detectar_contexto_1h below 25,
\* detectar_entrada_5m below 15 or without bands.
C7_SeriesCurtasDaoNone ==
    /\ (fase = "calcular" /\ Len(Itens5m) < PERIODO_BB) => bb = Nulo
    /\ (fase = "contexto" /\ Len(Itens1h) < 25) => contexto = Nulo
    /\ (fase = "entrada5m" /\ (Len(Itens5m) < 15 \/ bb = Nulo)) => entrada = Nulo

\* 24 candles, the last one a resistance candle by the three tests, gave None
C7_Witness ==
    /\ fase = "contexto"
    /\ Len(Itens1h) = 24
    /\ classificar_contexto(Itens1h).tipo = "resistencia"
    /\ contexto = Nulo

\* the band window read by the entry detector has no variance
JanelaSemVariancia ==
    /\ bb.tipo = "bb"
    /\ Len(bb.percent_b) >= 2
    /\ Neg(bb.superior, -2).var = 0

\* C8: when the window read by the entry detector has zero variance
\* (superior = inferior), percent_b is undefined and detectar_entrada_5m
\* gives no touch event, whatever the amplitudes are.
C8_SemVarianciaSemToque ==
    (fase = "entrada5m" /\ JanelaSemVariancia) =>
        entrada.tipo \notin {"lateralizacao_superior", "lateralizacao_inferior"}

\* the three tests of the resistance and of the support, read off the last
\* two candles of the series and the last 20 volumes
TresDeResistencia(k) ==
    LET n == Len(k)
    IN  /\ 1000 * k[n].high > 1005 * k[n - 1].high
        /\ 1000 * k[n].close < 995 * k[n].high
        /\ Soma([i \in 1..20 |-> k[n - 20 + i].volume]) > 0
        /\ 10 * 20 * k[n].volume > 12 * Soma([i \in 1..20 |-> k[n - 20 + i].volume])

TresDeSuporte(k) ==
    LET n == Len(k)
    IN  /\ 1000 * k[n].low < 995 * k[n - 1].low
        /\ 1000 * k[n].close > 1005 * k[n].low
        /\ Soma([i \in 1..20 |-> k[n - 20 + i].volume]) > 0
        /\ 10 * 20 * k[n].volume > 12 * Soma([i \in 1..20 |-> k[n - 20 + i].volume])

\* C9: on a series of at least 25 candles detectar_contexto_1h gives
\* 'resistencia' exactly when the three resistance tests hold, 'suporte'
\* exactly when they do not and the three support tests hold, None otherwise.
C9_ClassificacaoDoContexto ==
    (fase = "contexto" /\ Len(Itens1h) >= 25) =>
        /\ (contexto.tipo = "resistencia") = TresDeResistencia(Itens1h)
        /\ (contexto.tipo = "suporte")
              = (~TresDeResistencia(Itens1h) /\ TresDeSuporte(Itens1h))
        /\ (contexto = Nulo)
              = (~TresDeResistencia(Itens1h) /\ ~TresDeSuporte(Itens1h))
        /\ contexto.tipo = "resistencia" =>
              contexto.preco_zona = Itens1h[Len(Itens1h)].high
        /\ contexto.tipo = "suporte" =>
              contexto.preco_zona = Itens1h[Len(Itens1h)].low

\* a support whose candle also made a new high, without closing below it
C9_Witness ==
    /\ fase = "contexto"
    /\ contexto.tipo = "suporte"
    /\ 1000 * Neg(Itens1h, -1).high > 1005 * Neg(Itens1h, -2).high

\* C10 as claimed: no two consecutive candles pass both the resistance tests
\* and the support tests
C10_TestesExclusivos ==
    (fase = "contexto" /\ Len(Itens1h) >= 25) =>
        ~(TresDeResistencia(Itens1h) /\ TresDeSuporte(Itens1h))

\* C10: the two tests are not exclusive.  They hold together exactly for a
\* candle that breaks both extremes of the previous one by more than 0.5%
\* and closes more than 0.5% inside both of its own, with the volume surge;
\* the first-match order then decides, and the result is the resistance at
\* the candle's high.
C10_DesempateDaResistencia ==
    (fase = "contexto" /\ Len(Itens1h) >= 25
        /\ TresDeResistencia(Itens1h) /\ TresDeSuporte(Itens1h)) =>
        /\ contexto.tipo = "resistencia"
        /\ contexto.preco_zona = Neg(Itens1h, -1).high
        /\ Neg(Itens1h, -1).high > Neg(Itens1h, -2).high
        /\ Neg(Itens1h, -1).low < Neg(Itens1h, -2).low
        /\ Neg(Itens1h, -1).low < Neg(Itens1h, -1).close
        /\ Neg(Itens1h, -1).close < Neg(Itens1h, -1).high

\* a candle from 300 to 500 closing at 400 after a flat one: both tests hold
C10_Witness ==
    /\ fase = "contexto"
    /\ Len(Itens1h) >= 25
    /\ TresDeResistencia(Itens1h)
    /\ TresDeSuporte(Itens1h)
    /\ contexto.tipo = "resistencia"

\* the candles the exchange can report for the 5m candle in progress
UltimosCandles5m ==
    {[open |-> 489, high |-> c + 2, low |-> c, close |-> c] : c \in {459, 489, 519}}
        \cup {[open |-> 0, high |-> 489, low |-> 489, close |-> 489]}

\* the 5m series with its last element replaced by the candle u
ComUltimo5m(klines, u) ==
    [klines EXCEPT ![Len(klines)] =
        Candle(klines[Len(klines)].open_time, u.open, u.high, u.low, u.close, 1)]

\* the entry classification of a 5m series with its bands recomputed
EntradaDe(klines) ==
    detectar_entrada_5m(klines, BollingerBands_calcular(klines, PERIODO_BB, DESVIOS_BB))

\* the band value of the window of periodo closes that ends at the latest
\* closed candle, the element before the last of the series
PercentBDoFechado(klines) ==
    LET n      == Len(klines)
        janela == [j \in 1..PERIODO_BB |-> klines[n - PERIODO_BB - 1 + j].close]
    IN  percent_b_de(klines[n - 1].close, Soma(janela),
                     Soma([j \in 1..PERIODO_BB |-> Quadrado(janela[j])]),
                     PERIODO_BB, DESVIOS_BB)

\* C11: the entry detector classifies only the latest closed candle: an
\* entry event carries the band value of the window that ends at the element
\* before the last, the mean amplitude of the three elements before the
\* last, and the close and timestamp of the element before the last; and
\* replacing only the last element, the candle in progress, with the bands
\* recomputed, leaves the result of detectar_entrada_5m as it was.
C11_SoOCandleFechado ==
    (fase = "entrada5m" /\ bb.tipo = "bb") =>
        LET n == Len(Itens5m)
        IN  /\ entrada.tipo \in {"lateralizacao_superior", "lateralizacao_inferior"} =>
                  /\ entrada.percent_b = PercentBDoFechado(Itens5m)
                  /\ entrada.preco_atual = Itens5m[n - 1].close
                  /\ entrada.timestamp = Itens5m[n - 1].open_time
                  /\ LET a(i) == Itens5m[i].high - Itens5m[i].low
                         o(i) == Itens5m[i].open
                     IN  entrada.amplitude_media
                            = Fracao(a(n - 3) * o(n - 2) * o(n - 1)
                                       + a(n - 2) * o(n - 3) * o(n - 1)
                                       + a(n - 1) * o(n - 3) * o(n - 2),
                                     3 * o(n - 3) * o(n - 2) * o(n - 1))
            /\ \A u \in UltimosCandles5m : EntradaDe(ComUltimo5m(Itens5m, u)) = entrada

\* a touch of the upper band by the latest closed candle was reported while
\* the candle in progress closes elsewhere, inside the bands of its window
C11_Witness ==
    /\ fase = "entrada5m"
    /\ bb.tipo = "bb"
    /\ entrada.tipo = "lateralizacao_superior"
    /\ Neg(Itens5m, -1).close # Neg(Itens5m, -2).close
    /\ ~PB_MaiorQue095(Neg(bb.percent_b, -1))

\* C14: with at least 15 candles and the bands BollingerBands.calcular
\* returned for them, detectar_entrada_5m returns an entry event or None and
\* raises nothing, neither at bb['percent_b'][-2] nor at the division by the
\* open price.
C14_EntradaNuncaFalha ==
    (/\ fase = "entrada5m"
     /\ Len(Itens5m) >= MIN_CANDLES_5M
     /\ bb.tipo = "bb"
     /\ bb = BollingerBands_calcular(Itens5m, PERIODO_BB, DESVIOS_BB)) =>
        ~EhExcecao(entrada)

-----------------------------------------------------------------------------
(* TelegramAlerta.enviar_sinal *)

\* the calendar of the model: days 1..DiasPorMes of months 1..MesesPorAno of
\* the years 0..MaxAno, each day with the hours 0..HorasPorDia - 1
DiasPorMes == 2

MesesPorAno == 1

MaxAno == 1

HorasPorDia == 2

\* how many enviar_sinal calls a run makes
MaxChamadas == 3

Instantes ==
    [ano : 0..MaxAno, mes : 1..MesesPorAno, dia : 1..DiasPorMes,
     hora : 0..(HorasPorDia - 1)]

\* the calendar date of an instant, and the number of its day
DataDe(t) == [ano |-> t.ano, mes |-> t.mes, dia |-> t.dia]

NumeroDoDia(t) == (t.ano * MesesPorAno + (t.mes - 1)) * DiasPorMes + (t.dia - 1)

Antes(t, u) ==
    NumeroDoDia(t) * HorasPorDia + t.hora < NumeroDoDia(u) * HorasPorDia + u.hora

\* sinal['timestamp'][:5]: the 'dd/mm' of the '%d/%m %H:%M:%S' string
prefixo_5(timestamp) == [dia |-> timestamp.dia, mes |-> timestamp.mes]

\* f"{sinal['symbol']}_{sinal['acao']}_{sinal['timestamp'][:5]}"
chave_unica(s) == <<s.symbol, s.acao, prefixo_5(s.timestamp)>>

\* One call of enviar_sinal: the new values of the dedup set, of the
\* delivered messages and of the audit log, and the value returned.
\* envio_ok: bot.send_message returned (CHAT_ID is set and no TelegramError);
\* escrita_ok: historico_sinais.log was opened and written.
enviar_sinal(s, envio_ok, escrita_ok, agora) ==
    IF chave_unica(s) \in alertas_enviados
    THEN [alertas |-> alertas_enviados, telegram |-> telegram,
          historico |-> historico, retorno |-> FALSE]
    ELSE IF ~envio_ok
    THEN [alertas |-> alertas_enviados, telegram |-> telegram,
          historico |-> historico, retorno |-> FALSE]
    ELSE IF ~escrita_ok
    THEN [alertas |-> alertas_enviados \cup {chave_unica(s)},
          telegram |-> Append(telegram, [sinal |-> s, em |-> agora]),
          historico |-> historico, retorno |-> FALSE]
    ELSE [alertas |-> alertas_enviados \cup {chave_unica(s)},
          telegram |-> Append(telegram, [sinal |-> s, em |-> agora]),
          historico |-> Append(historico, [quando |-> agora, sinal |-> s]),
          retorno |-> TRUE]

\* the confirmed signals confirmar_sinal can hand over at the instant agora:
\* sales and purchases of two pairs, the sale of BTCUSDT at two prices
SinaisConfirmados(agora) ==
    {sinal_de(x[1], x[2],
              [preco_zona |-> 500, forca_volume |-> [num |-> 3, den |-> 2]],
              [preco_atual |-> x[3]], agora) :
        x \in {<<"VENDA", "BTCUSDT", 490>>, <<"VENDA", "BTCUSDT", 495>>,
               <<"COMPRA", "BTCUSDT", 490>>, <<"VENDA", "ETHUSDT", 490>>,
               <<"COMPRA", "ETHUSDT", 490>>}}

\* time passes between two calls
PassarTempo ==
    /\ \E t \in Instantes : Antes(relogio, t) /\ relogio' = t
    /\ UNCHANGED <<detVars, alertas_enviados, telegram, historico, chamada, n_chamadas,
                   botVars>>

EnviarSinal ==
    /\ n_chamadas < MaxChamadas
    /\ \E s \in SinaisConfirmados(relogio), envio_ok \in BOOLEAN, escrita_ok \in BOOLEAN :
          LET r == enviar_sinal(s, envio_ok, escrita_ok, relogio)
          IN  /\ alertas_enviados' = r.alertas
              /\ telegram' = r.telegram
              /\ historico' = r.historico
              /\ chamada' = [tipo |-> "chamada", sinal |-> s, envio_ok |-> envio_ok,
                             escrita_ok |-> escrita_ok, retorno |-> r.retorno]
    /\ n_chamadas' = n_chamadas + 1
    /\ UNCHANGED <<detVars, relogio, botVars>>

\* after TelegramAlerta.__init__; the detection core is idle while the
\* alerts are exercised
InitAlerta ==
    /\ relogio = RelogioInicial
    /\ alertas_enviados = {}
    /\ telegram = <<>>
    /\ historico = <<>>
    /\ chamada = Pendente
    /\ n_chamadas = 0
    /\ fase = "parado"
    /\ klines_1h = Nulo
    /\ klines_5m = Nulo
    /\ residuo = 0
    /\ bb = Pendente
    /\ contexto = Pendente
    /\ entrada = Pendente
    /\ sinal = Pendente
    /\ instante = 0
    /\ ciclo_inicio = 0
    /\ ultima_verificacao = [p \in {} |-> 0]
    /\ pc = "parado"
    /\ indice = 0
    /\ n_ciclos = 0
    /\ ciclo = [inicio |-> 0, analisados |-> {}, pulados |-> {}, falhas |-> {}]
    /\ ciclo_anterior = [inicio |-> 0, analisados |-> {}, pulados |-> {}, falhas |-> {}]

NextAlerta == PassarTempo \/ EnviarSinal

SpecAlerta == InitAlerta /\ [][NextAlerta]_vars

-----------------------------------------------------------------------------
(* Properties of the alerts, checked under SpecAlerta *)

\* the step is a call of enviar_sinal
PassoDeEnvio == n_chamadas' = n_chamadas + 1

\* a message for the pair and action of s was delivered on the date d
EntregueNaData(s, d) ==
    \E i \in 1..Len(telegram) :
        /\ telegram[i].sinal.symbol = s.symbol
        /\ telegram[i].sinal.acao = s.acao
        /\ DataDe(telegram[i].em) = d

\* a message for the pair and action of s was delivered the day before t
EntregueNaVespera(s, t) ==
    \E i \in 1..Len(telegram) :
        /\ telegram[i].sinal.symbol = s.symbol
        /\ telegram[i].sinal.acao = s.acao
        /\ NumeroDoDia(telegram[i].em) + 1 = NumeroDoDia(t)

\* C2: once a signal for (pair, action, calendar date) has been delivered,
\* every later signal for the same pair, action and date is suppressed
\* (False, nothing sent), whatever its price; and the first signal for the
\* same pair and action on the following calendar day is emitted: sent, and
\* True returned, when the delivery and the log write succeed.
C2_UmAlertaPorDiaDeCalendario ==
    [][PassoDeEnvio =>
        LET s == chamada'.sinal
        IN  /\ EntregueNaData(s, DataDe(relogio)) =>
                  (chamada'.retorno = FALSE /\ telegram' = telegram)
            /\ (/\ EntregueNaVespera(s, relogio)
                /\ ~EntregueNaData(s, DataDe(relogio))
                /\ chamada'.envio_ok
                /\ chamada'.escrita_ok) =>
                  (chamada'.retorno = TRUE /\ Len(telegram') = Len(telegram) + 1)
      ]_vars

\* C3: the dedup set changes exactly in the calls that return True, which add
\* the key of their signal; a call that returns False leaves the set as it
\* was, be it a duplicate, a failed delivery or a failed log write.
C3_ChaveGravadaSeDevolveTrue ==
    [][PassoDeEnvio =>
        /\ chamada'.retorno = FALSE => alertas_enviados' = alertas_enviados
        /\ chamada'.retorno = TRUE =>
              (/\ chave_unica(chamada'.sinal) \notin alertas_enviados
               /\ alertas_enviados'
                     = alertas_enviados \cup {chave_unica(chamada'.sinal)})
      ]_vars

\* C4: the audit log holds one record for each delivered message, in the
\* order of delivery, and no other record.
C4_UmRegistroPorEntrega ==
    /\ Len(historico) = Len(telegram)
    /\ \A i \in 1..Len(historico) : historico[i].sinal = telegram[i].sinal

-----------------------------------------------------------------------------
(* ReversaoBot.executar: the main loop and its rate limiter *)

INTERVALO_VERIFICACAO == 300

\* PARES_MONITORADOS in the order of the list, the order of the for loop
PARES_EM_ORDEM == <<"BTCUSDT", "ETHUSDT", "SOLUSDT">>

\* timedelta(minutes=6), the age given to a pair never verified
IDADE_PADRAO == 360

\* how many passes of the while loop a run makes
MaxCiclos == 2

\* how long one analysis takes, from the elapsed test to the datetime.now()
\* that is stored: the requests and the logging always take time, here two
\* seconds or more than the interval
Duracoes == {2, 301}

\* by how much time.sleep oversleeps
Atrasos == {0, 2}

\* what the two obter_klines calls of an analysis return: a failed request;
\* a resistance with an upper touch (a sale); the same resistance with only
\* 20 candles of 5m, on which detectar_entrada_5m raises
BuscasDoBot ==
    LET r1h == Klines1h([n |-> MIN_CANDLES_1H, vb |-> 37, pen |-> <<400, 400>>,
                         ult |-> [high |-> 500, low |-> 400, close |-> 400,
                                  volume |-> 80]])
    IN  {[r1h |-> Nulo, r5m |-> Nulo],
         [r1h |-> r1h, r5m |-> Klines5m([n |-> PERIODO_BB + 1, b |-> 489, ruido |-> 0,
                                         d2 |-> 1, d1 |-> 0, a |-> 1, zero |-> FALSE])],
         [r1h |-> r1h, r5m |-> Klines5m([n |-> PERIODO_BB, b |-> 489, ruido |-> 1,
                                         d2 |-> 1, d1 |-> 0, a |-> 1, zero |-> FALSE])]}

\* the record of a pass that starts at t
CicloVazio(t) == [inicio |-> t, analisados |-> {}, pulados |-> {}, falhas |-> {}]

\* the pair the for loop is at
ParAtual == PARES_EM_ORDEM[indice]

\* self.ultima_verificacao.get(symbol, ciclo_inicio - timedelta(minutes=6))
ultima_de(symbol) ==
    IF symbol \in DOMAIN ultima_verificacao
    THEN ultima_verificacao[symbol]
    ELSE ciclo_inicio - IDADE_PADRAO

\* (datetime.now() - ultima).total_seconds() < INTERVALO_VERIFICACAO
Limitado(symbol) == instante - ultima_de(symbol) < INTERVALO_VERIFICACAO

\* the for loop moves to the next pair, or leaves the loop after the last
ProximoPar ==
    /\ indice' = indice + 1
    /\ pc' = IF indice = Len(PARES_EM_ORDEM) THEN "dormir" ELSE "par"

\* while True: ciclo_inicio = datetime.now()
IniciarCiclo ==
    /\ pc = "ciclo"
    /\ n_ciclos < MaxCiclos
    /\ ciclo_inicio' = instante
    /\ indice' = 1
    /\ pc' = "par"
    /\ n_ciclos' = n_ciclos + 1
    /\ ciclo_anterior' = ciclo
    /\ ciclo' = CicloVazio(instante)
    /\ UNCHANGED <<detVars, alertaVars, instante, ultima_verificacao>>

\* if elapsed < INTERVALO_VERIFICACAO: continue
PularPar ==
    /\ pc = "par"
    /\ Limitado(ParAtual)
    /\ ciclo' = [ciclo EXCEPT !.pulados = @ \cup {ParAtual}]
    /\ ProximoPar
    /\ UNCHANGED <<detVars, alertaVars, instante, ciclo_inicio, ultima_verificacao,
                   n_ciclos, ciclo_anterior>>

\* the try block of the for loop: confirmar_sinal, enviar_sinal when there is
\* a signal, the registration of the verification; an exception of
\* confirmar_sinal goes to the except clause, which logs it.  Of the run of
\* confirmar_sinal the loop keeps the value returned, sinal.
AnalisarPar ==
    /\ pc = "par"
    /\ ~Limitado(ParAtual)
    /\ \E busca \in BuscasDoBot :
          /\ sinal' = confirmar_sinal(ParAtual, busca.r1h, busca.r5m, relogio).sinal
          /\ \E dur \in Duracoes : instante' = instante + dur
          /\ IF EhExcecao(sinal')
             THEN \* except Exception: the verification is not registered
                  /\ ciclo' = [ciclo EXCEPT !.analisados = @ \cup {ParAtual},
                                            !.falhas = @ \cup {ParAtual}]
                  /\ UNCHANGED <<alertas_enviados, telegram, historico, chamada,
                                 n_chamadas, ultima_verificacao>>
             ELSE /\ ultima_verificacao' =
                        [p \in DOMAIN ultima_verificacao \cup {ParAtual} |->
                            IF p = ParAtual THEN instante' ELSE ultima_verificacao[p]]
                  /\ IF EhNulo(sinal')
                     THEN \* no signal; a failed fetch is a failure
                          /\ ciclo' = [ciclo EXCEPT
                                          !.analisados = @ \cup {ParAtual},
                                          !.falhas =
                                              IF Falso(busca.r1h) \/ Falso(busca.r5m)
                                              THEN @ \cup {ParAtual} ELSE @]
                          /\ UNCHANGED <<alertas_enviados, telegram, historico,
                                         chamada, n_chamadas>>
                     ELSE \* if sinal: self.alerta.enviar_sinal(sinal)
                          \E envio_ok \in BOOLEAN, escrita_ok \in BOOLEAN :
                             LET e == enviar_sinal(sinal', envio_ok, escrita_ok, relogio)
                             IN  /\ alertas_enviados' = e.alertas
                                 /\ telegram' = e.telegram
                                 /\ historico' = e.historico
                                 /\ chamada' = [tipo |-> "chamada", sinal |-> sinal',
                                                envio_ok |-> envio_ok,
                                                escrita_ok |-> escrita_ok,
                                                retorno |-> e.retorno]
                                 /\ n_chamadas' = n_chamadas + 1
                                 /\ ciclo' =
                                       [ciclo EXCEPT
                                           !.analisados = @ \cup {ParAtual},
                                           !.falhas =
                                               IF /\ ~e.retorno
                                                  /\ chave_unica(sinal')
                                                        \notin alertas_enviados
                                               THEN @ \cup {ParAtual} ELSE @]
    /\ ProximoPar
    /\ UNCHANGED <<fase, klines_1h, klines_5m, residuo, bb, contexto, entrada,
                   relogio, ciclo_inicio, n_ciclos, ciclo_anterior>>

\* espera = max(1, INTERVALO_VERIFICACAO - ciclo_duracao); time.sleep(espera)
Dormir ==
    /\ pc = "dormir"
    /\ LET ciclo_duracao == instante - ciclo_inicio
           espera == IF INTERVALO_VERIFICACAO - ciclo_duracao > 1
                     THEN INTERVALO_VERIFICACAO - ciclo_duracao ELSE 1
       IN  \E atraso \in Atrasos : instante' = instante + espera + atraso
    /\ pc' = "ciclo"
    /\ UNCHANGED <<detVars, alertaVars, ciclo_inicio, ultima_verificacao, indice,
                   n_ciclos, ciclo, ciclo_anterior>>

\* after ReversaoBot.__init__, at the top of the while loop
InitBot ==
    /\ relogio = RelogioInicial
    /\ alertas_enviados = {}
    /\ telegram = <<>>
    /\ historico = <<>>
    /\ chamada = Pendente
    /\ n_chamadas = 0
    /\ fase = "parado"
    /\ klines_1h = Nulo
    /\ klines_5m = Nulo
    /\ residuo = 0
    /\ bb = Pendente
    /\ contexto = Pendente
    /\ entrada = Pendente
    /\ sinal = Pendente
    /\ instante = 0
    /\ ciclo_inicio = 0
    /\ ultima_verificacao = [p \in {} |-> 0]
    /\ pc = "ciclo"
    /\ indice = 0
    /\ n_ciclos = 0
    /\ ciclo = CicloVazio(0)
    /\ ciclo_anterior = CicloVazio(0)

NextBot == IniciarCiclo \/ PularPar \/ AnalisarPar \/ Dormir

SpecBot == InitBot /\ [][NextBot]_vars

-----------------------------------------------------------------------------
(* Properties of the main loop, checked under SpecBot *)

\* C12: the rate limiter lets every pair be verified once per interval: a
\* pass that starts INTERVALO_VERIFICACAO seconds after the start of the
\* pass before it analyses again every pair that pass analysed, skipping
\* none of them.
C12_CadaParACadaIntervalo ==
    (/\ pc = "dormir"
     /\ n_ciclos >= 2
     /\ ciclo.inicio = ciclo_anterior.inicio + INTERVALO_VERIFICACAO) =>
        /\ ciclo_anterior.analisados \subseteq ciclo.analisados
        /\ ciclo_anterior.analisados \cap ciclo.pulados = {}

\* the step is the analysis of a pair that failed: a failed fetch, an
\* exception of the detection, or a notification that returned False for a
\* signal that was not a duplicate
PassoDeFalha ==
    /\ pc = "par"
    /\ ParAtual \in ciclo'.analisados
    /\ ParAtual \in ciclo'.falhas

\* C13: a failure while a pair is analysed is not fatal and costs only
\* that pair's turn: the for loop goes on to the next pair, or to the sleep
\* and the next pass after the last pair, and the dedup set is as it was
\* before the failed analysis.
C13_FalhaNaoFatal ==
    [][PassoDeFalha =>
        /\ indice' = indice + 1
        /\ pc' \in {"par", "dormir"}
        /\ alertas_enviados' = alertas_enviados
      ]_vars

=============================================================================
